---- MODULE Spec2Model ----
(***************************************************************************)
(* send-to-mochi: the synchronization run of the plugin (SyncEngine.runSync *)
(* in src/src/sync-engine.ts), the remote client it drives (MochiClient in  *)
(* src/src/mochi-api.ts) and the command that starts runs (MochiSyncPlugin  *)
(* in the same file).  A run is an async function: it is suspended at every *)
(* await and everything between two awaits is one atomic step.  The remote  *)
(* service, the document store (vault) and the plugin data store answer     *)
(* each request with any outcome they can produce.                          *)
(***************************************************************************)
EXTENDS Integers, Sequences, FiniteSets, TLC

VARIABLES settings, vault, syncState, disk, remote, clock, invoked, lastClean, run, hist, probe

vars == <<settings, vault, syncState, disk, remote, clock, invoked, lastClean, run, hist, probe>>

(***************************************************************************)
(* Bounds of the model.                                                     *)
(***************************************************************************)
\* number of invocations of the sync command in one behaviour
MaxRuns == 2
\* number of runs that can be under way at the same time
MaxActive == 2
\* size of the space generateId draws from (8 hex digits in the code)
NumIds == 2
\* number of ```mochi blocks in a text that is parsed on its own
MaxBlocks == 2
\* length of the bodies over Q, - and line break that are parsed on their own
MaxChars == 7

Runs == 1..MaxActive
IdSpace == 1..NumIds
NoId == 0

(***************************************************************************)
(* Strings are sequences of UTF-16 code units.                              *)
(***************************************************************************)
Comma == <<44>>
Separator == <<10, 45, 45, 45, 10>>

\* Array.prototype.join(",")
RECURSIVE Join(_)
Join(tags) ==
    IF Len(tags) = 0 THEN <<>>
    ELSE IF Len(tags) = 1 THEN tags[1]
    ELSE tags[1] \o Comma \o Join(Tail(tags))

(***************************************************************************)
(* simpleHash: hash = ((hash << 5) - hash) + char; hash = hash & hash, i.e. *)
(* 31*hash + char wrapped to a signed 32-bit integer.  The 32-bit value is  *)
(* carried as two 16-bit halves so that no intermediate exceeds 2^31.       *)
(***************************************************************************)
Half == 65536

HashStep(h, c) ==
    LET lo == 31 * h[2] + c
        hi == 31 * h[1] + (lo \div Half)
    IN  <<hi % Half, lo % Half>>

RECURSIVE HashFold(_, _)
HashFold(h, str) ==
    IF Len(str) = 0 THEN h ELSE HashFold(HashStep(h, Head(str)), Tail(str))

\* the signed 32-bit value of the two halves
ToInt32(h) ==
    IF h[1] >= Half \div 2 THEN (h[1] - Half) * Half + h[2] ELSE h[1] * Half + h[2]

\* hash.toString() is one-to-one on integers: the fingerprint is kept as the integer
simpleHash(str) == ToInt32(HashFold(<<0, 0>>, str))

(***************************************************************************)
(* Card blocks.  A document is the sequence of its ```mochi blocks; a block *)
(* is its identifier annotation (NoId when it has none) and what the parser *)
(* makes of its body: a qa card, a cloze card, or nothing (type "none").    *)
(***************************************************************************)
QA(q, a, t) == [type |-> "qa", question |-> q, answer |-> a, content |-> <<>>, tags |-> t]
Cloze(c, t) == [type |-> "cloze", question |-> <<>>, answer |-> <<>>, content |-> c, tags |-> t]
Malformed == [type |-> "none", question |-> <<>>, answer |-> <<>>, content |-> <<>>, tags |-> <<>>]

\* "Q" --- "A"
QA1 == QA(<<81>>, <<65>>, <<>>)
\* "Q" --- "B"
QA2 == QA(<<81>>, <<66>>, <<>>)
\* "{{c1::x}}" Tags: t
CZ1 == Cloze(<<123, 123, 99, 49, 58, 58, 120, 125, 125>>, << <<116>> >>)

\* "Q" --- "AB"
QA3 == QA(<<81>>, <<65, 66>>, <<>>)
\* "QA" --- "B"
QA4 == QA(<<81, 65>>, <<66>>, <<>>)
\* "Q" --- "A" Tags: B
QA5 == QA(<<81>>, <<65>>, << <<66>> >>)

Block(id, body) == [id |-> id, body |-> body]

\* runSync lines 66-75: the content hash of a card, by its type
Fingerprint(card) ==
    IF card.type = "cloze"
    THEN simpleHash(card.content \o Join(card.tags))
    ELSE simpleHash(card.question \o card.answer \o Join(card.tags))

\* runSync lines 68 and 71: the content sent to the service
MochiContent(card) ==
    IF card.type = "cloze" THEN card.content
    ELSE card.question \o Separator \o card.answer

\* runSync lines 66-75: a card that is neither a cloze with content nor a qa
\* with question and answer is skipped
ValidCard(card) ==
    \/ card.type = "cloze" /\ card.content # <<>>
    \/ card.type = "qa" /\ card.question # <<>> /\ card.answer # <<>>


(***************************************************************************)
(* CardParser.parseFile on a document.  gen[i] is what generateId returns   *)
(* for block i (crypto.randomUUID().slice(0, 8): any value of the space, no *)
(* check against the identifiers already in use).  A block without an       *)
(* annotation gets one and is rewritten, whether or not its body parses; a  *)
(* card is emitted for every block whose body is a cloze or a qa card.      *)
(***************************************************************************)
generateId == IdSpace

CardId(block, g) == IF block.id # NoId THEN block.id ELSE g

UpdatedContent(content, gen) ==
    [i \in 1..Len(content) |-> Block(CardId(content[i], gen[i]), content[i].body)]

RECURSIVE Cards(_)
Cards(blocks) ==
    IF Len(blocks) = 0 THEN <<>>
    ELSE IF Head(blocks).body.type = "none" THEN Cards(Tail(blocks))
    ELSE <<[id |-> Head(blocks).id, card |-> Head(blocks).body]>> \o Cards(Tail(blocks))

NeedsId(content) == \E i \in 1..Len(content) : content[i].id = NoId

parseFile(content, gen) ==
    [cards |-> Cards(UpdatedContent(content, gen)),
     fileUpdates |-> IF NeedsId(content) THEN <<UpdatedContent(content, gen)>> ELSE <<>>]

(***************************************************************************)
(* The remote service.  A request is answered with a status; requestUrl     *)
(* throws on a status of 400 or more and returns the response otherwise.    *)
(* A create answers with the new card's identifier in one of the shapes the *)
(* engine looks at, or in none of them.                                     *)
(***************************************************************************)
Statuses == {200, 302, 404, 429, 500}
Ok(s) == s >= 200 /\ s < 300
Thrown(s) == s >= 400

Shapes == {"id", "_id", "cardId", "card.id", "none"}
Absent == ""
Response(shape, rid) == [k \in {"id", "_id", "cardId", "card.id"} |-> IF k = shape THEN rid ELSE Absent]

\* the responses a create can be answered with: each field missing (or
\* falsy) or holding an identifier
Responses == [{"id", "_id", "cardId", "card.id"} -> {Absent, "a", "b"}]

\* an engine that looks at the nested card.id first: ExtractionOrder tells it
\* from FirstId
FirstIdNested(res) ==
    IF res["card.id"] # Absent THEN res["card.id"]
    ELSE IF res["id"] # Absent THEN res["id"]
    ELSE IF res["_id"] # Absent THEN res["_id"]
    ELSE res["cardId"]

\* runSync line 88: res?.id || res?._id || res?.cardId || res?.card?.id
FirstId(res) ==
    IF res["id"] # Absent THEN res["id"]
    ELSE IF res["_id"] # Absent THEN res["_id"]
    ELSE IF res["cardId"] # Absent THEN res["cardId"]
    ELSE res["card.id"]

\* runSync lines 89-102: the remote identifier recorded for a created card
MochiId(res) == IF FirstId(res) = Absent THEN "unknown" ELSE FirstId(res)

\* the number of request patterns createCard tries in turn
NumEndpoints == 8

\* a service that accepts an update of any identifier: UnknownSentinelStuck
\* tells it from HasRemote
AnyRemote(rem, rid) == TRUE

\* the identifier the service gives its n-th card
RemoteId(n) == "r" \o ToString(n)

HasRemote(rem, rid) == \E i \in 1..Len(rem) : rem[i].id = rid

(***************************************************************************)
(* The vaults and prior states a behaviour starts from.                     *)
(***************************************************************************)
NumFiles == 2
Files == 1..NumFiles

\* the vault whose first documents are docs, the others holding no block
Vault(docs) == [f \in Files |-> IF f <= Len(docs) THEN docs[f] ELSE <<>>]

InitVaults ==
    { Vault(<< <<Block(NoId, QA1)>>, <<Block(1, QA2)>> >>),
      Vault(<< <<Block(1, QA1), Block(1, QA2)>> >>),
      Vault(<< <<Block(NoId, Malformed), Block(1, CZ1)>>, <<Block(2, QA1)>> >>),
      Vault(<< >>) }

Entry(mochiId, h, t, o) == [mochiId |-> mochiId, contentHash |-> h, lastSync |-> t, obj |-> o]

\* the plugin data: no card synchronized yet, or card 1 synchronized as QA1
\* by an earlier session (remote card r1)
InitStates ==
    { [cards |-> <<>>, remote |-> <<>>],
      [cards |-> (1 :> Entry(RemoteId(1), Fingerprint(QA1), 0, 1)),
       remote |-> <<[id |-> RemoteId(1), content |-> MochiContent(QA1), tags |-> QA1.tags,
                     by |-> <<0, 0, 0>>]>>] }

InitSettings ==
    { [apiKey |-> "key", defaultDeckId |-> "deck"],
      [apiKey |-> "", defaultDeckId |-> "deck"],
      [apiKey |-> "key", defaultDeckId |-> ""] }

IdleRun ==
    [pc |-> "idle", no |-> 0, fileIdx |-> 0, cards |-> <<>>, cardIdx |-> 0, pending |-> <<>>,
     created |-> 0, updated |-> 0, total |-> 0, ep |-> 0, target |-> "", ref |-> 0]


\* what is recorded of a run for the properties: the calls it made, what it
\* saw when it decided on the current card, how it ended
NoHist ==
    [loads |-> 0, saves |-> 0, processed |-> 0, creates |-> 0, updates |-> 0,
     calls |-> 0, op |-> "none", seen |-> {}, first |-> 0, attempts |-> 0,
     gap |-> 0, at |-> 0, result |-> "none", before |-> <<0, 0, 0>>,
     failed |-> 0, createFailed |-> {}, updateFailed |-> {},
     summary |-> 0, fatal |-> 0, cause |-> "", clean |-> TRUE,
     alone |-> TRUE, afterClean |-> FALSE, start |-> <<>>, made |-> {},
     remoteAtFail |-> <<>>, callStart |-> 0, callEnd |-> 0, deck |-> "none",
     generated |-> {}]

\* the call of a pure function that is looked at on its own: none in a
\* behaviour of the plugin
NoProbe == [fn |-> "none", arg |-> <<>>, gen |-> <<>>, out |-> <<>>, prev |-> <<>>]

Init ==
    /\ settings \in InitSettings
    /\ vault \in InitVaults
    /\ \E s \in InitStates :
        /\ syncState = s.cards
        /\ disk = s.cards
        /\ remote = s.remote
    /\ clock = 1
    /\ invoked = 0
    /\ lastClean = FALSE
    /\ run = [r \in Runs |-> IdleRun]
    /\ hist = [r \in Runs |-> NoHist]
    /\ probe = NoProbe

InProgress(r) == run[r].pc \notin {"idle", "returned", "done", "rejected"}

(***************************************************************************)
(* runSync lines 61-79 and 119: what is done with a card.                   *)
(***************************************************************************)
\* a reconciler that updates every card it has an entry for, whatever its
\* fingerprint: ReconcileDecision tells it from Decide
DecideIgnoringFingerprint(st, c) ==
    IF c.id \notin DOMAIN st THEN "create" ELSE "update"

Decide(st, c) ==
    IF c.id \notin DOMAIN st THEN "create"
    ELSE IF st[c.id].contentHash # Fingerprint(c.card) THEN "update"
    ELSE "none"

\* runSync lines 49-61, 72-86, 119-125, 145-151: from the card at rec.cardIdx
\* on, up to the next await: the first request of the card's call, the
\* spacing delay of a card that needs no call, the read of the next file, or
\* the save after the last file
RECURSIVE Continue(_, _)
Continue(rec, st) ==
    IF rec.cardIdx <= Len(rec.cards)
    THEN LET c == rec.cards[rec.cardIdx]
         IN  IF ~ValidCard(c.card)
             THEN Continue([rec EXCEPT !.cardIdx = @ + 1], st)
             ELSE CASE Decide(st, c) = "create" ->
                         [rec EXCEPT !.pc = "listDecks", !.ep = 0, !.target = "", !.ref = 0]
                    [] Decide(st, c) = "update" ->
                         [rec EXCEPT !.pc = "put", !.ep = 0, !.target = st[c.id].mochiId,
                                     !.ref = st[c.id].obj]
                    [] OTHER -> [rec EXCEPT !.pc = "delay", !.ep = 0, !.target = "", !.ref = 0]
    ELSE IF rec.fileIdx < NumFiles
         THEN [rec EXCEPT !.pc = "read", !.fileIdx = @ + 1, !.cards = <<>>, !.cardIdx = 0,
                          !.ep = 0, !.target = "", !.ref = 0]
         ELSE [rec EXCEPT !.pc = "save", !.cards = <<>>, !.cardIdx = 0,
                          !.ep = 0, !.target = "", !.ref = 0]

\* the record of the step Continue takes
HistContinue(h, n, st, now) ==
    LET h0 == [h EXCEPT !.op = "none", !.seen = {}, !.calls = 0, !.first = 0,
                        !.attempts = 0, !.gap = 0, !.at = 0, !.result = "none",
                        !.before = <<0, 0, 0>>, !.callStart = 0, !.deck = "none"]
    IN  IF n.pc = "read" THEN [h0 EXCEPT !.generated = {}]
        ELSE IF n.pc = "save" THEN [h0 EXCEPT !.saves = @ + 1, !.generated = {}]
        ELSE LET c == n.cards[n.cardIdx]
             IN  [h0 EXCEPT
                    !.processed = @ + 1,
                    !.before = <<n.created, n.updated, h.failed>>,
                    !.callStart = IF n.pc \in {"listDecks", "put"} THEN now ELSE 0,
                    !.op = IF n.pc = "listDecks" THEN "create"
                           ELSE IF n.pc = "put" THEN "update" ELSE "none",
                    !.seen = IF c.id \in DOMAIN st THEN {st[c.id]} ELSE {},
                    !.calls = IF n.pc = "delay" THEN 0 ELSE 1,
                    !.creates = @ + (IF n.pc = "listDecks" THEN 1 ELSE 0),
                    !.updates = @ + (IF n.pc = "put" THEN 1 ELSE 0),
                    !.attempts = IF n.pc = "put" THEN 1 ELSE 0,
                    !.at = IF n.pc = "put" THEN now ELSE 0]

Resume(r, rec, h, st, now) ==
    LET n == Continue(rec, st)
    IN  /\ run' = [run EXCEPT ![r] = n]
        /\ hist' = [hist EXCEPT ![r] = HistContinue(h, n, st, now)]

(***************************************************************************)
(* The command 'sync-mochi-cards': callback: () => this.engine.runSync().   *)
(* runSync lines 27-50, up to the read of the first file.  The run takes    *)
(* the first record that no run under way is using.                         *)
(***************************************************************************)
FreeSlot(r) == ~InProgress(r) /\ \A q \in Runs : q < r => InProgress(q)

\* an engine that looks at the API key only: ConfigurationGuard tells it
\* from Configured
ConfiguredKeyOnly(s) == s.apiKey # ""

\* runSync lines 31-39: the settings a run goes on with
Configured(s) == s.apiKey # "" /\ s.defaultDeckId # ""

InvokeSync(r) ==
    /\ invoked < MaxRuns
    /\ FreeSlot(r)
    /\ invoked' = invoked + 1
    /\ IF ~Configured(settings)
       THEN /\ run' = [run EXCEPT ![r] = [IdleRun EXCEPT !.pc = "returned", !.no = invoked + 1]]
            /\ hist' = [hist EXCEPT ![r] = NoHist]
       ELSE LET others == {q \in Runs \ {r} : InProgress(q)}
                h == [NoHist EXCEPT
                        !.loads = 1,
                        !.start = syncState,
                        !.alone = others = {},
                        !.afterClean = lastClean /\ others = {}]
                n == Continue([IdleRun EXCEPT !.no = invoked + 1, !.cardIdx = 1], syncState)
            IN  /\ run' = [run EXCEPT ![r] = n]
                /\ hist' = [q \in Runs |->
                              IF q = r THEN HistContinue(h, n, syncState, clock)
                              ELSE IF q \in others THEN [hist[q] EXCEPT !.alone = FALSE]
                              ELSE hist[q]]
    /\ UNCHANGED <<probe, settings, vault, syncState, disk, remote, clock, lastClean>>

CurCard(r) == run[r].cards[run[r].cardIdx]

\* a rejected await that nothing catches: runSync rejects
Reject(r, cause) ==
    /\ run' = [run EXCEPT ![r].pc = "rejected"]
    /\ hist' = [hist EXCEPT ![r].cause = cause, ![r].clean = FALSE]
    /\ lastClean' = FALSE

(***************************************************************************)
(* runSync lines 50-58: the read of a file settles.                         *)
(***************************************************************************)
ReadResolve(r) ==
    /\ run[r].pc = "read"
    /\ LET content == vault[run[r].fileIdx]
       IN  \E gen \in [1..Len(content) -> generateId] :
             /\ \A i \in 1..Len(content) : content[i].id # NoId => gen[i] = 1
             /\ LET res == parseFile(content, gen)
                    rec == [run[r] EXCEPT !.cards = res.cards, !.cardIdx = 1,
                                          !.total = @ + Len(res.cards)]
                IN  IF res.fileUpdates # <<>>
                    THEN /\ run' = [run EXCEPT ![r] =
                                      [rec EXCEPT !.pc = "modify", !.pending = res.fileUpdates[1]]]
                         /\ hist' = [hist EXCEPT ![r].generated =
                                      {gen[i] : i \in {j \in 1..Len(content) : content[j].id = NoId}}]
                    ELSE Resume(r, rec, hist[r], syncState, clock)
    /\ UNCHANGED <<probe, settings, vault, syncState, disk, remote, clock, invoked, lastClean>>

ReadReject(r) ==
    /\ run[r].pc = "read"
    /\ Reject(r, "read")
    /\ UNCHANGED <<probe, settings, vault, syncState, disk, remote, clock, invoked>>

\* an engine that goes on to the cards without the overwrite:
\* IdentifierDurable tells it from ModifyResolve
ModifySkipped(r) ==
    /\ run[r].pc = "modify"
    /\ vault' = vault
    /\ Resume(r, [run[r] EXCEPT !.pending = <<>>], hist[r], syncState, clock)
    /\ UNCHANGED <<probe, settings, syncState, disk, remote, clock, invoked, lastClean>>

ModifyResolve(r) ==
    /\ run[r].pc = "modify"
    /\ vault' = [vault EXCEPT ![run[r].fileIdx] = run[r].pending]
    /\ Resume(r, [run[r] EXCEPT !.pending = <<>>], hist[r], syncState, clock)
    /\ UNCHANGED <<probe, settings, syncState, disk, remote, clock, invoked, lastClean>>

ModifyReject(r) ==
    /\ run[r].pc = "modify"
    /\ Reject(r, "modify")
    /\ UNCHANGED <<probe, settings, vault, syncState, disk, remote, clock, invoked>>

(***************************************************************************)
(* MochiClient.createCard lines 33-48: the deck is looked up in listDecks;  *)
(* a failing listDecks and a deck that is not listed both end in the catch  *)
(* of line 45, and the first request pattern is tried.                      *)
(***************************************************************************)
ListDecksSettle(r) ==
    /\ run[r].pc = "listDecks"
    /\ \E d \in {"listed", "missing", "failed"} :
         /\ run' = [run EXCEPT ![r].pc = "post", ![r].ep = 1]
         /\ hist' = [hist EXCEPT ![r].attempts = 1, ![r].at = clock, ![r].deck = d,
                                 ![r].clean = @ /\ d # "failed"]
    /\ UNCHANGED <<probe, settings, vault, syncState, disk, remote, clock, invoked, lastClean>>

\* runSync lines 108-117 and 133-139: what follows a failed call, by the
\* status in the message of the error
CatchPc(status) == IF status = 429 THEN "wait429" ELSE "delay"

\* runSync lines 104-118 and 129-141: the failure of the card's call is caught
Caught(r, status) ==
    /\ run' = [run EXCEPT ![r].pc = CatchPc(status)]
    /\ hist' = [hist EXCEPT
                  ![r].result = "fail", ![r].failed = @ + 1, ![r].clean = FALSE,
                  ![r].callEnd = clock,
                  ![r].first = IF hist[r].attempts = 1 THEN status ELSE @,
                  ![r].createFailed = IF hist[r].op = "create" THEN @ \cup {CurCard(r).id} ELSE @,
                  ![r].updateFailed = IF hist[r].op = "update" THEN @ \cup {CurCard(r).id} ELSE @]
    /\ UNCHANGED <<syncState, remote>>

\* a request of the call failed and another one is made
Retried(r, status, pc) ==
    /\ run' = [run EXCEPT ![r].pc = pc, ![r].ep = @ + 1]
    /\ hist' = [hist EXCEPT
                  ![r].attempts = @ + 1, ![r].clean = FALSE,
                  ![r].gap = clock - hist[r].at, ![r].at = clock,
                  ![r].first = IF hist[r].attempts = 1 THEN status ELSE @]
    /\ UNCHANGED <<syncState, remote>>

\* an engine that records nothing for a created card:
\* TransientThrottlingTransparent tells it from Recorded
NotRecorded(st, id, res, h, now, o) == st

\* an engine that keeps only the entry it writes: EntriesKept tells it from
\* Recorded
RecordedAlone(st, id, res, h, now, o) == (id :> Entry(MochiId(res), h, now, o))

\* runSync lines 88-103: the entry recorded for a created card
Recorded(st, id, res, h, now, o) == (id :> Entry(MochiId(res), h, now, o)) @@ st

\* createCard lines 73-110: a request that failed is followed by the next
\* pattern, if there is one
Retries(ep) == ep < NumEndpoints

(***************************************************************************)
(* createCard lines 73-141 and runSync lines 82-118: a request of the       *)
(* endpoint loop settles.                                                   *)
(***************************************************************************)
PostSettle(r) ==
    /\ run[r].pc = "post"
    /\ \E s \in Statuses :
         IF Ok(s)
         THEN \E shape \in Shapes :
                LET n == Len(remote) + 1
                    res == Response(shape, RemoteId(n))
                    c == CurCard(r)
                IN  /\ remote' = Append(remote,
                          [id |-> RemoteId(n), content |-> MochiContent(c.card), tags |-> c.card.tags,
                           by |-> <<run[r].no, run[r].fileIdx, run[r].cardIdx>>])
                    /\ syncState' = Recorded(syncState, c.id, res, Fingerprint(c.card), clock, n)
                    /\ run' = [run EXCEPT ![r].pc = "delay", ![r].created = @ + 1]
                    /\ hist' = [hist EXCEPT
                                  ![r].result = "ok", ![r].callEnd = clock,
                                  ![r].first = IF hist[r].attempts = 1 THEN s ELSE @,
                                  ![r].made = @ \cup {RemoteId(n)}]
         ELSE IF Retries(run[r].ep)
              THEN Retried(r, s, "post")
              ELSE Caught(r, s)
    /\ UNCHANGED <<probe, settings, vault, disk, clock, invoked, lastClean>>

\* runSync lines 126-127: existingState, the entry object read at line 77, is
\* changed in place; it is the entry of the state unless a create has put
\* another object in its place since
Refreshed(st, id, ref, h, now) ==
    IF id \in DOMAIN st /\ st[id].obj = ref
    THEN [st EXCEPT ![id].contentHash = h, ![id].lastSync = now]
    ELSE st

\* an engine that does not count the updates it makes: SummaryCounts tells
\* it from Updated
UpdatedUncounted(r) ==
    LET c == CurCard(r)
    IN  /\ remote' = [i \in 1..Len(remote) |->
                        IF remote[i].id = run[r].target
                        THEN [remote[i] EXCEPT !.content = MochiContent(c.card), !.tags = c.card.tags]
                        ELSE remote[i]]
        /\ syncState' = Refreshed(syncState, c.id, run[r].ref, Fingerprint(c.card), clock)
        /\ run' = [run EXCEPT ![r].pc = "delay"]
        /\ hist' = [hist EXCEPT ![r].result = "ok", ![r].callEnd = clock,
                                ![r].first = IF hist[r].attempts = 1 THEN 200 ELSE @]

\* updateCard lines 171-172 and runSync lines 126-128: the update succeeded
Updated(r) ==
    LET c == CurCard(r)
    IN  /\ remote' = [i \in 1..Len(remote) |->
                        IF remote[i].id = run[r].target
                        THEN [remote[i] EXCEPT !.content = MochiContent(c.card), !.tags = c.card.tags]
                        ELSE remote[i]]
        /\ syncState' = Refreshed(syncState, c.id, run[r].ref, Fingerprint(c.card), clock)
        /\ run' = [run EXCEPT ![r].pc = "delay", ![r].updated = @ + 1]
        /\ hist' = [hist EXCEPT ![r].result = "ok", ![r].callEnd = clock,
                                ![r].first = IF hist[r].attempts = 1 THEN 200 ELSE @]

(***************************************************************************)
(* updateCard lines 144-178: the PUT settles; a PUT that throws is followed *)
(* by a POST to the same address.  The service can only update a card it    *)
(* holds.                                                                   *)
(***************************************************************************)
PutSettle(r) ==
    /\ run[r].pc = "put"
    /\ \E s \in Statuses :
         IF Ok(s)
         THEN HasRemote(remote, run[r].target) /\ Updated(r)
         ELSE IF Thrown(s)
              THEN Retried(r, s, "postUpd")
              ELSE Caught(r, s)
    /\ UNCHANGED <<probe, settings, vault, disk, clock, invoked, lastClean>>

PostUpdSettle(r) ==
    /\ run[r].pc = "postUpd"
    /\ \E s \in Statuses :
         IF Ok(s)
         THEN HasRemote(remote, run[r].target) /\ Updated(r)
         ELSE Caught(r, s)
    /\ UNCHANGED <<probe, settings, vault, disk, clock, invoked, lastClean>>

\* the timers of runSync, in milliseconds
RateLimitWait == 2000
SpacingDelay == 500

\* runSync lines 111 and 136: the wait after a rate-limited call is over
Wait429Elapsed(r) ==
    /\ run[r].pc = "wait429"
    /\ run' = [run EXCEPT ![r].pc = "delay"]
    /\ clock' = clock + RateLimitWait
    /\ UNCHANGED <<probe, settings, vault, syncState, disk, remote, invoked, lastClean, hist>>

\* an engine that goes on to the next card without the spacing delay:
\* InterCallSpacing tells it from DelayElapsed
DelaySkipped(r) ==
    /\ run[r].pc = "delay"
    /\ clock' = clock
    /\ Resume(r, [run[r] EXCEPT !.cardIdx = @ + 1], hist[r], syncState, clock')
    /\ UNCHANGED <<probe, settings, vault, syncState, disk, remote, invoked, lastClean>>

\* runSync line 145: the spacing delay is over, on to the next card
DelayElapsed(r) ==
    /\ run[r].pc = "delay"
    /\ clock' = clock + SpacingDelay
    /\ Resume(r, [run[r] EXCEPT !.cardIdx = @ + 1], hist[r], syncState, clock')
    /\ UNCHANGED <<probe, settings, vault, syncState, disk, remote, invoked, lastClean>>

(***************************************************************************)
(* runSync lines 149-166 with MochiSyncPlugin.saveSyncState: the save       *)
(* settles.                                                                 *)
(***************************************************************************)
SaveResolve(r) ==
    /\ run[r].pc = "save"
    /\ disk' = syncState
    /\ run' = [run EXCEPT ![r].pc = "done"]
    /\ hist' = [hist EXCEPT ![r].summary = @ + 1]
    /\ lastClean' = (hist[r].clean /\ hist[r].alone)
    /\ UNCHANGED <<probe, settings, vault, syncState, remote, clock, invoked>>

\* a run that shows the summary although the save failed: PersistenceFatal
\* tells it from SaveReject
SaveRejectSummarised(r) ==
    /\ run[r].pc = "save"
    /\ run' = [run EXCEPT ![r].pc = "rejected"]
    /\ hist' = [hist EXCEPT ![r].fatal = @ + 1, ![r].summary = @ + 1, ![r].cause = "save",
                            ![r].clean = FALSE, ![r].remoteAtFail = remote]
    /\ lastClean' = FALSE
    /\ UNCHANGED <<probe, settings, vault, syncState, disk, remote, clock, invoked>>

SaveReject(r) ==
    /\ run[r].pc = "save"
    /\ run' = [run EXCEPT ![r].pc = "rejected"]
    /\ hist' = [hist EXCEPT ![r].fatal = @ + 1, ![r].cause = "save", ![r].clean = FALSE,
                            ![r].remoteAtFail = remote]
    /\ lastClean' = FALSE
    /\ UNCHANGED <<probe, settings, vault, syncState, disk, remote, clock, invoked>>

\* the steps of a run that is under way
Step(r) ==
    \/ ReadResolve(r)
    \/ ReadReject(r)
    \/ ModifyResolve(r)
    \/ ModifyReject(r)
    \/ ListDecksSettle(r)
    \/ PostSettle(r)
    \/ PutSettle(r)
    \/ PostUpdSettle(r)
    \/ Wait429Elapsed(r)
    \/ DelayElapsed(r)
    \/ SaveResolve(r)
    \/ SaveReject(r)

Quiet == \A q \in Runs : ~InProgress(q)

\* the command is invoked when no run is under way
Next ==
    \E r \in Runs :
        \/ Quiet /\ InvokeSync(r)
        \/ Step(r)

Spec == Init /\ [][Next]_vars

\* the command is invoked at any time
NextOverlap ==
    \E r \in Runs :
        \/ InvokeSync(r)
        \/ Step(r)

\* one document with one block that has no identifier yet, and the plugin
\* data of an earlier synchronization
InitOverlap ==
    /\ settings = [apiKey |-> "key", defaultDeckId |-> "deck"]
    /\ vault = Vault(<< <<Block(NoId, QA2)>> >>)
    /\ \E s \in InitStates :
        /\ s.cards # <<>>
        /\ syncState = s.cards
        /\ disk = s.cards
        /\ remote = s.remote
    /\ clock = 1
    /\ invoked = 0
    /\ lastClean = FALSE
    /\ run = [r \in Runs |-> IdleRun]
    /\ hist = [r \in Runs |-> NoHist]
    /\ probe = NoProbe

SpecOverlap == InitOverlap /\ [][NextOverlap]_vars

(***************************************************************************)
(* The user edits the documents between two runs: the body of a card block  *)
(* is rewritten, or the block is removed.                                   *)
(***************************************************************************)
EditBodies == {QA2, QA4, QA5}

RemoveAt(seq, i) == SubSeq(seq, 1, i - 1) \o SubSeq(seq, i + 1, Len(seq))

BetweenRuns == Quiet /\ invoked >= 1 /\ invoked < MaxRuns

EditBlock ==
    /\ BetweenRuns
    /\ \E f \in Files : \E i \in 1..Len(vault[f]) : \E b \in EditBodies \ {vault[f][i].body} :
          vault' = [vault EXCEPT ![f][i].body = b]
    /\ lastClean' = FALSE
    /\ UNCHANGED <<probe, settings, syncState, disk, remote, clock, invoked, run, hist>>

RemoveBlock ==
    /\ BetweenRuns
    /\ \E f \in Files : \E i \in 1..Len(vault[f]) :
          vault' = [vault EXCEPT ![f] = RemoveAt(vault[f], i)]
    /\ lastClean' = FALSE
    /\ UNCHANGED <<probe, settings, syncState, disk, remote, clock, invoked, run, hist>>

\* one document with one block that has no identifier yet
InitEdit ==
    /\ settings = [apiKey |-> "key", defaultDeckId |-> "deck"]
    /\ vault = Vault(<< <<Block(NoId, QA3)>> >>)
    /\ \E s \in InitStates :
        /\ syncState = s.cards
        /\ disk = s.cards
        /\ remote = s.remote
    /\ clock = 1
    /\ invoked = 0
    /\ lastClean = FALSE
    /\ run = [r \in Runs |-> IdleRun]
    /\ hist = [r \in Runs |-> NoHist]
    /\ probe = NoProbe

NextEdit ==
    \/ \E r \in Runs :
          \/ Quiet /\ InvokeSync(r)
          \/ Step(r)
    \/ EditBlock
    \/ RemoveBlock

SpecEdit == InitEdit /\ [][NextEdit]_vars

(***************************************************************************)
(* CardParser on text.  A text is the sequence of its UTF-16 code units;    *)
(* the regular expressions of the parser are matched as JavaScript matches  *)
(* them (leftmost, greedy, with backtracking).                              *)
(***************************************************************************)
\* \s, the line terminators of ^ $ and ., \d, and [\w-]
IsWs(c) == c \in {9, 10, 11, 12, 13, 32, 160}
IsTerminator(c) == c \in {10, 13}
IsDigit(c) == c >= 48 /\ c <= 57
IsWord(c) == IsDigit(c) \/ (c >= 65 /\ c <= 90) \/ (c >= 97 /\ c <= 122) \/ c = 95 \/ c = 45

StartsAt(str, i, pat) ==
    /\ i >= 1
    /\ i + Len(pat) - 1 <= Len(str)
    /\ SubSeq(str, i, i + Len(pat) - 1) = pat

\* the first position from i on that holds no whitespace (a digit, a
\* [\w-] character, a line terminator is there, a "}" is not there)
RECURSIVE SkipWs(_, _)
SkipWs(str, i) == IF i <= Len(str) /\ IsWs(str[i]) THEN SkipWs(str, i + 1) ELSE i

RECURSIVE SkipDigits(_, _)
SkipDigits(str, i) == IF i <= Len(str) /\ IsDigit(str[i]) THEN SkipDigits(str, i + 1) ELSE i

RECURSIVE SkipWord(_, _)
SkipWord(str, i) == IF i <= Len(str) /\ IsWord(str[i]) THEN SkipWord(str, i + 1) ELSE i

RECURSIVE SkipLine(_, _)
SkipLine(str, i) == IF i <= Len(str) /\ ~IsTerminator(str[i]) THEN SkipLine(str, i + 1) ELSE i

RECURSIVE SkipNotBrace(_, _)
SkipNotBrace(str, i) == IF i <= Len(str) /\ str[i] # 125 THEN SkipNotBrace(str, i + 1) ELSE i

\* String.prototype.trim
RECURSIVE TrimEnd(_)
TrimEnd(str) ==
    IF Len(str) > 0 /\ IsWs(str[Len(str)]) THEN TrimEnd(SubSeq(str, 1, Len(str) - 1)) ELSE str

Trim(str) == TrimEnd(SubSeq(str, SkipWs(str, 1), Len(str)))

\* the largest element of a set of positions, 0 when it is empty
Last(S) == IF S = {} THEN 0 ELSE CHOOSE i \in S : \A j \in S : j <= i
First(S) == IF S = {} THEN 0 ELSE CHOOSE i \in S : \A j \in S : i <= j

\* ^ under the m flag
IsLineStart(str, i) == i = 1 \/ (i >= 2 /\ i <= Len(str) + 1 /\ IsTerminator(str[i - 1]))

NoMatch == [found |-> FALSE, start |-> 0, end |-> 0, cap |-> <<>>]

IdOpen == <<37, 37, 32, 105, 100, 58>>
IdClose == <<32, 37, 37, 10>>
Percents == <<37, 37>>
IdKey == <<105, 100, 58>>

\* parseFile line 43: /^\s*%%\s*id:([\w-]+)\s*%%\s*\n/.exec(body); end is the
\* first position after the match
IdMatch(body) ==
    LET a == SkipWs(body, 1)
        b == SkipWs(body, a + 2)
        c == b + 3
        d == SkipWord(body, c)
        e == SkipWs(body, d)
        f == e + 2
        g == SkipWs(body, f)
        nl == Last({i \in f..(g - 1) : body[i] = 10})
    IN  IF /\ StartsAt(body, a, Percents)
           /\ StartsAt(body, b, IdKey)
           /\ d > c
           /\ StartsAt(body, e, Percents)
           /\ nl # 0
        THEN [found |-> TRUE, start |-> 1, end |-> nl + 1, cap |-> SubSeq(body, c, d - 1)]
        ELSE NoMatch

\* parseFile lines 13-14: /^\s*Tags:\s*(.*)$/m and /^\s*Deck:\s*(.*)$/m, tried
\* at the line start i
FieldMatchAt(str, key, i) ==
    LET a == SkipWs(str, i)
        b == SkipWs(str, a + Len(key))
        e == SkipLine(str, b)
    IN  IF StartsAt(str, a, key)
        THEN [found |-> TRUE, start |-> i, end |-> e, cap |-> SubSeq(str, b, e - 1)]
        ELSE NoMatch

\* RegExp.prototype.exec: the leftmost match
FieldMatch(str, key) ==
    LET starts == {i \in 1..(Len(str) + 1) : IsLineStart(str, i) /\ FieldMatchAt(str, key, i).found}
    IN  IF starts = {} THEN NoMatch ELSE FieldMatchAt(str, key, First(starts))

\* String.prototype.replace(regex, '') with a regex that has no g flag
Removed(str, m) ==
    IF m.found THEN SubSeq(str, 1, m.start - 1) \o SubSeq(str, m.end, Len(str)) ELSE str

TagsKey == <<84, 97, 103, 115, 58>>
DeckKey == <<68, 101, 99, 107, 58>>

\* String.prototype.split(',')
RECURSIVE SplitComma(_)
SplitComma(str) ==
    LET i == First({k \in 1..Len(str) : str[k] = 44})
    IN  IF i = 0 THEN <<str>>
        ELSE <<SubSeq(str, 1, i - 1)>> \o SplitComma(SubSeq(str, i + 1, Len(str)))

RECURSIVE TrimmedNonEmpty(_)
TrimmedNonEmpty(parts) ==
    IF Len(parts) = 0 THEN <<>>
    ELSE IF Trim(Head(parts)) = <<>> THEN TrimmedNonEmpty(Tail(parts))
    ELSE <<Trim(Head(parts))>> \o TrimmedNonEmpty(Tail(parts))

\* parseFile line 64: the tags of a body
Tags(body) ==
    LET m == FieldMatch(body, TagsKey)
    IN  IF m.found /\ m.cap # <<>> THEN TrimmedNonEmpty(SplitComma(m.cap)) ELSE <<>>

\* parseFile lines 68-71
ContentForParsing(body) ==
    LET noTags == Removed(body, FieldMatch(body, TagsKey))
    IN  Trim(Removed(noTags, FieldMatch(noTags, DeckKey)))

Braces == <<123, 123>>
Closing == <<125, 125>>
ColonColon == <<58, 58>>

\* a cloze token at i with k index digits after the prefix of length pre and
\* a separator of length sep: the position after it, 0 when there is none
TokenEnd(str, i, pre, k, sep) ==
    LET q == i + 2 + pre + k + sep
        e == SkipNotBrace(str, q)
    IN  IF e > q /\ StartsAt(str, e, Closing) THEN e + 2 ELSE 0

\* the separators (?:::|:)? can match at q, in the order they are tried
Separators(str, q) ==
    (IF StartsAt(str, q, ColonColon) THEN <<2>> ELSE <<>>)
        \o (IF StartsAt(str, q, <<58>>) THEN <<1>> ELSE <<>>)
        \o <<0>>

\* parseFile line 17: CLOZE_REGEX = /\{\{(\d+|c\d+)(?:::|:)?([^}]+)\}\}/ matches
\* somewhere in str
ClozeTest(str) ==
    \E i \in 1..Len(str) : \E pre \in {0, 1} :
        /\ StartsAt(str, i, Braces)
        /\ pre = 1 => StartsAt(str, i + 2, <<99>>)
        /\ \E k \in 1..(SkipDigits(str, i + 2 + pre) - (i + 2 + pre)) :
             \E n \in 1..Len(Separators(str, i + 2 + pre + k)) :
                TokenEnd(str, i, pre, k, Separators(str, i + 2 + pre + k)[n]) # 0

\* parseFile line 76: the match of /\{\{(\d+)(?:::|:)?([^}]+)\}\}/ at i: the
\* longest index first, then the separators in their order
RECURSIVE TokenAt(_, _, _, _)
TokenAt(str, i, k, n) ==
    IF k = 0 THEN NoMatch
    ELSE LET seps == Separators(str, i + 2 + k)
         IN  IF n > Len(seps) THEN TokenAt(str, i, k - 1, 1)
             ELSE LET e == TokenEnd(str, i, 0, k, seps[n])
                  IN  IF e # 0
                      THEN [found |-> TRUE, start |-> i, end |-> e,
                            cap |-> <<SubSeq(str, i + 2, i + 1 + k),
                                      SubSeq(str, i + 2 + k + seps[n], e - 3)>>]
                      ELSE TokenAt(str, i, k, n + 1)

TokenMatch(str, i) ==
    IF StartsAt(str, i, Braces)
    THEN TokenAt(str, i, SkipDigits(str, i + 2) - (i + 2), 1)
    ELSE NoMatch

\* parseFile line 76: contentForParsing.replace(/.../g, '{{c$1::$2}}')
RECURSIVE NormalizeFrom(_, _)
NormalizeFrom(str, i) ==
    IF i > Len(str) THEN <<>>
    ELSE LET m == TokenMatch(str, i)
         IN  IF m.found
             THEN Braces \o <<99>> \o m.cap[1] \o ColonColon \o m.cap[2] \o Closing
                      \o NormalizeFrom(str, m.end)
             ELSE <<str[i]>> \o NormalizeFrom(str, i + 1)

Normalize(str) == NormalizeFrom(str, 1)

Dashes == <<45, 45, 45>>

\* parseFile line 21: MARKDOWN_SEPARATOR = /^\s*---\s*$/m tried at i
SeparatorAt(str, i) ==
    LET a == SkipWs(str, i)
        w == a + 3
        g == SkipWs(str, w)
        t == Last({j \in w..(g - 1) : IsTerminator(str[j])})
    IN  IF ~(IsLineStart(str, i) /\ StartsAt(str, a, Dashes)) THEN NoMatch
        ELSE IF g > Len(str) THEN [found |-> TRUE, start |-> i, end |-> g, cap |-> <<>>]
        ELSE IF t # 0 THEN [found |-> TRUE, start |-> i, end |-> t, cap |-> <<>>]
        ELSE NoMatch

SeparatorTest(str) == \E i \in 1..Len(str) : SeparatorAt(str, i).found

\* String.prototype.split(MARKDOWN_SEPARATOR): p is where the current part
\* starts, q where a match is tried
RECURSIVE SplitFrom(_, _, _)
SplitFrom(str, p, q) ==
    IF q > Len(str) THEN <<SubSeq(str, p, Len(str))>>
    ELSE LET m == SeparatorAt(str, q)
         IN  IF m.found /\ m.end # p
             THEN <<SubSeq(str, p, q - 1)>> \o SplitFrom(str, m.end, m.end)
             ELSE SplitFrom(str, p, q + 1)

SplitSeparator(str) == SplitFrom(str, 1, 1)

\* Array.prototype.join('\n---\n')
RECURSIVE JoinSeparator(_)
JoinSeparator(parts) ==
    IF Len(parts) = 0 THEN <<>>
    ELSE IF Len(parts) = 1 THEN parts[1]
    ELSE parts[1] \o Separator \o JoinSeparator(Tail(parts))

\* a parser that takes a question without an answer for a card:
\* WellFormedRecords tells it from CardOf
CardOfUnchecked(bodyWithoutId) ==
    LET tags == Tags(bodyWithoutId)
        content == ContentForParsing(bodyWithoutId)
        parts == SplitSeparator(content)
        question == Trim(parts[1])
        answer == Trim(JoinSeparator(Tail(parts)))
    IN  IF ClozeTest(content) THEN Cloze(Normalize(content), tags)
        ELSE IF SeparatorTest(content) /\ question # <<>>
             THEN QA(question, answer, tags)
        ELSE Malformed

\* parseFile lines 73-107: the card of a body without its identifier line,
\* Malformed when the body gives none
CardOf(bodyWithoutId) ==
    LET tags == Tags(bodyWithoutId)
        content == ContentForParsing(bodyWithoutId)
        parts == SplitSeparator(content)
        question == Trim(parts[1])
        answer == Trim(JoinSeparator(Tail(parts)))
    IN  IF ClozeTest(content) THEN Cloze(Normalize(content), tags)
        ELSE IF /\ SeparatorTest(content)
                /\ Len(parts) >= 2
                /\ parts[1] # <<>>
                /\ question # <<>>
                /\ answer # <<>>
             THEN QA(question, answer, tags)
        ELSE Malformed

\* the text of the identifier generateId returns, two characters for the
\* eight of the code
IdText(g) == <<96 + g, 48 + g>>

\* a parser that writes the annotation without the line break after it:
\* IdentifierStable tells it from IdLine
IdLineUnbroken(cardId) == IdOpen \o cardId \o <<32, 37, 37>>

\* parseFile line 54: `%% id:${cardId} %%\n`
IdLine(cardId) == IdOpen \o cardId \o IdClose

\* a ```mochi block: what follows ```mochi up to the line break that
\* CARD_BLOCK_REGEX matches with \s*\n, and the body up to the closing ```
RawBlock(open, body) == [open |-> open, body |-> body]

\* parseFile line 11: CARD_BLOCK_REGEX on what stands between ```mochi and
\* the closing ```: \s*\n takes the whitespace up to its last line break,
\* the body is the rest
MatchedBlock(after) ==
    LET k == Last({j \in 1..(SkipWs(after, 1) - 1) : after[j] = 10})
    IN  RawBlock(SubSeq(after, 1, k), SubSeq(after, k + 1, Len(after)))

\* parseFile lines 35-107 on one block with g from generateId: its
\* identifier, the block as rewritten, and its card
ParsedBlock(block, g) ==
    LET m == IdMatch(block.body)
        cardId == IF m.found THEN m.cap ELSE IdText(g)
        rest == IF m.found THEN SubSeq(block.body, m.end, Len(block.body)) ELSE block.body
    IN  [skipped |-> block.body = <<>>,
         patched |-> block.body # <<>> /\ ~m.found,
         newBlock |-> IF block.body # <<>> /\ ~m.found
                      THEN RawBlock(<<10>>, IdLine(cardId) \o block.body)
                      ELSE block,
         id |-> Trim(cardId),
         card |-> IF block.body = <<>> THEN Malformed ELSE CardOf(rest)]

RECURSIVE CardsOfText(_, _)
CardsOfText(fileContent, gen) ==
    IF Len(fileContent) = 0 THEN <<>>
    ELSE LET b == ParsedBlock(Head(fileContent), Head(gen))
         IN  (IF b.card.type = "none" THEN <<>> ELSE <<[id |-> b.id, card |-> b.card]>>)
                 \o CardsOfText(Tail(fileContent), Tail(gen))

\* CardParser.parseFile on the blocks of a text; gen[i] is what generateId
\* returns for block i
parseFileText(fileContent, gen) ==
    LET blocks == [i \in 1..Len(fileContent) |-> ParsedBlock(fileContent[i], gen[i])]
    IN  [cards |-> CardsOfText(fileContent, gen),
         fileUpdates |-> IF \E i \in 1..Len(fileContent) : blocks[i].patched
                         THEN <<[i \in 1..Len(fileContent) |-> blocks[i].newBlock]>>
                         ELSE <<>>]

(***************************************************************************)
(* The pure functions of the plugin, each applied on its own to inputs of   *)
(* a bounded set; nothing of the plugin's state is involved.                *)
(***************************************************************************)
InitPure ==
    /\ settings = [apiKey |-> "key", defaultDeckId |-> "deck"]
    /\ vault = Vault(<< >>)
    /\ syncState = <<>>
    /\ disk = <<>>
    /\ remote = <<>>
    /\ clock = 1
    /\ invoked = 0
    /\ lastClean = FALSE
    /\ run = [r \in Runs |-> IdleRun]
    /\ hist = [r \in Runs |-> NoHist]
    /\ probe = NoProbe

PlugIn == <<settings, vault, syncState, disk, remote, clock, invoked, lastClean, run, hist>>

\* runSync lines 88-102 on a response
ExtractId ==
    /\ probe.fn = "none"
    /\ \E res \in Responses :
          probe' = [fn |-> "mochiId", arg |-> res, gen |-> <<>>, out |-> MochiId(res),
                    prev |-> <<>>]
    /\ UNCHANGED PlugIn

\* bodies without an identifier line: "Q\n---\nA\n", "{{1:x}}\n", and two
\* with a separator line and nothing before or after it
TextQA == <<81, 10, 45, 45, 45, 10, 65, 10>>
TextCloze == <<123, 123, 49, 58, 120, 125, 125, 10>>
TextNoAnswer == <<81, 10, 45, 45, 45, 10>>
TextNoQuestion == <<45, 45, 45, 10, 65, 10>>

MalformedTexts == {TextNoAnswer, TextNoQuestion}
BodyTexts == {TextQA, TextCloze, <<>>} \cup MalformedTexts
IdTexts == {IdText(g) : g \in generateId}

\* the blocks of the texts: a body as it is, or behind an identifier line
RawBlocks ==
    {RawBlock(<<10>>, t) : t \in BodyTexts}
        \cup {RawBlock(<<10>>, IdLine(id) \o t) : id \in IdTexts, t \in BodyTexts}

\* blocks with a line break, with a blank and with an empty line after
\* ```mochi, the body with and without an identifier line
PatchBlocks ==
    {MatchedBlock(open \o body) :
        open \in {<<10>>, <<32, 10>>, <<10, 10>>},
        body \in {TextQA, IdLine(IdText(1)) \o TextQA}}

Texts ==
    UNION {[1..n -> RawBlocks] : n \in 0..MaxBlocks}
        \cup UNION {[1..n -> PatchBlocks] : n \in 1..MaxBlocks}

\* what generateId may return for the blocks of a text: any identifier for a
\* block that gets one
Generated(text) ==
    {gen \in [1..Len(text) -> generateId] :
        \A i \in 1..Len(text) :
            (text[i].body = <<>> \/ IdMatch(text[i].body).found) => gen[i] = 1}

\* CardParser.parseFile on a text
ParseFile ==
    /\ probe.fn = "none"
    /\ \E text \in Texts : \E gen \in Generated(text) :
          probe' = [fn |-> "parseFile", arg |-> text, gen |-> gen,
                    out |-> parseFileText(text, gen), prev |-> <<>>]
    /\ UNCHANGED PlugIn

\* CardParser.parseFile on the text an earlier parseFile has rewritten
Reparse ==
    /\ probe.fn = "parseFile"
    /\ probe.out.fileUpdates # <<>>
    /\ LET text == probe.out.fileUpdates[1]
       IN  \E gen \in Generated(text) :
              probe' = [fn |-> "reparse", arg |-> text, gen |-> gen,
                        out |-> parseFileText(text, gen), prev |-> probe.out]
    /\ UNCHANGED PlugIn

\* the cloze tokens the detector accepts: index of digits, with or without
\* the letter before it, separator '::' or ':'
TokenShapes ==
    [prefix : {<<>>, <<99>>}, index : {<<49>>, <<49, 50>>}, sep : {ColonColon, <<58>>},
     text : {<<120>>, <<119, 111, 114, 100>>}]

TokenText(shape) == Braces \o shape.prefix \o shape.index \o shape.sep \o shape.text \o Closing

\* parseFile lines 73-86 on a body that is one cloze token
ParseToken ==
    /\ probe.fn = "none"
    /\ \E shape \in TokenShapes :
          probe' = [fn |-> "cloze", arg |-> shape, gen |-> <<>>,
                    out |-> CardOf(TokenText(shape)), prev |-> <<>>]
    /\ UNCHANGED PlugIn

\* every body of at most MaxChars characters over Q, - and line break
ShortTexts == UNION {[1..n -> {81, 45, 10}] : n \in 0..MaxChars}

Hyphens(n) == [i \in 1..n |-> 45]

\* a body of a question line, a line of n hyphens between the whitespace
\* lead and trail, an answer line, and what follows it
SepText(q, lead, n, trail, a, more) ==
    q \o <<10>> \o lead \o Hyphens(n) \o trail \o <<10>> \o a \o more

\* "\n---\nB": a second separator line and a line after it
SecondPart == <<10, 45, 45, 45, 10, 66>>

SeparatorTexts ==
    {SepText(q, lead, n, trail, a, more) :
        q \in {<<81>>, <<32>>, <<>>}, lead \in {<<>>, <<32, 32>>}, n \in {2, 3, 4, 5},
        trail \in {<<>>, <<32, 32>>}, a \in {<<65>>, <<32>>, <<>>}, more \in {<<>>, SecondPart}}

\* bodies with braces: tokens with two index digits, an empty text, no
\* index, one closing brace, two tokens, a token behind a separator line
ClozeEdgeTexts ==
    {<<123, 123, 49, 50, 125, 125>>,
     <<123, 123, 49, 58, 58, 125, 125>>,
     <<123, 123, 49, 125, 125>>,
     <<123, 123, 99, 49, 58, 120, 125, 125>>,
     <<123, 123, 49, 58, 120, 125, 125, 32, 123, 123, 50, 58, 121, 125, 125>>,
     <<123, 123, 58, 120, 125, 125>>,
     <<123, 123, 49, 58, 120, 125>>,
     <<123, 123, 49, 58, 120, 125, 125, 10, 84, 97, 103, 115, 58, 32, 116>>,
     <<81, 10, 45, 45, 45, 10, 123, 123, 49, 58, 120, 125, 125>>,
     <<123, 123, 125, 125>>,
     <<123, 123, 99, 58, 120, 125, 125>>}

EdgeBodies == ShortTexts \cup SeparatorTexts \cup ClozeEdgeTexts

\* parseFile lines 35-107 on a text of one block, a body of EdgeBodies
\* after ```mochi and a line break
ParseBody ==
    /\ probe.fn = "none"
    /\ \E body \in EdgeBodies :
          probe' = [fn |-> "parseBody", arg |-> body, gen |-> <<1>>,
                    out |-> ParsedBlock(MatchedBlock(<<10>> \o body), 1), prev |-> <<>>]
    /\ UNCHANGED PlugIn

NextPure ==
    \/ ExtractId
    \/ ParseBody
    \/ ParseFile
    \/ Reparse
    \/ ParseToken

SpecPure == InitPure /\ [][NextPure]_vars

(***************************************************************************)
(* Properties.                                                              *)
(***************************************************************************)
Ended(r) == run[r].pc \in {"done", "rejected"}
AtCard(r) == run[r].pc \in {"listDecks", "post", "put", "postUpd", "wait429", "delay"}

\* the remote cards made for the card block run r is at
MadeForCurrent(r) ==
    {i \in 1..Len(remote) : remote[i].by = <<run[r].no, run[r].fileIdx, run[r].cardIdx>>}

\* C1: a run that starts after a run that completed with every remote call
\* succeeding and the state saved, over the documents as that run left them,
\* issues no createCard and no updateCard call and counts 0 created and 0
\* updated.
Idempotent ==
    \A r \in Runs :
        hist[r].afterClean =>
            /\ hist[r].creates = 0
            /\ hist[r].updates = 0
            /\ run[r].created = 0
            /\ run[r].updated = 0

\* C2: for the card a run is at, createCard is called iff the state had no
\* entry for its identifier, updateCard iff it had one whose contentHash is
\* not the card's fingerprint, and then with the stored remote identifier;
\* with an equal fingerprint no call is made; at most one call per card.
ReconcileDecision ==
    \A r \in Runs :
        AtCard(r) =>
            LET c == CurCard(r)
                h == hist[r]
            IN  /\ (h.op = "create") <=> (h.seen = {})
                /\ (h.op = "update") <=> (\E e \in h.seen : e.contentHash # Fingerprint(c.card))
                /\ (h.op = "none") <=> (\E e \in h.seen : e.contentHash = Fingerprint(c.card))
                /\ h.op = "create" => run[r].pc \in {"listDecks", "post", "wait429", "delay"}
                /\ h.op = "update" =>
                     /\ run[r].pc \in {"put", "postUpd", "wait429", "delay"}
                     /\ \A e \in h.seen : run[r].target = e.mochiId
                /\ h.op = "none" => run[r].pc = "delay" /\ h.calls = 0
                /\ h.calls <= 1
                /\ h.creates + h.updates <= h.processed

\* a run has decided to update a card whose stored fingerprint differs
ReconcileDecisionWitness ==
    \E r \in Runs :
        /\ run[r].pc = "put"
        /\ hist[r].op = "update"
        /\ run[r].target = RemoteId(1)

\* C3: a run in which the call of some card failed does not abort: when it
\* has ended, every card of every document has been processed and the save
\* of the state has been made.
FailureIsolation ==
    \A r \in Runs :
        (Ended(r) /\ hist[r].failed > 0) =>
            /\ run[r].fileIdx = NumFiles
            /\ hist[r].processed = run[r].total
            /\ hist[r].saves = 1

\* C4: after a run, the state has no entry for an identifier whose create
\* call failed in the run, and the entry of an identifier whose update call
\* failed has the remote identifier, contentHash and lastSync it had before
\* the run.
StateUnchangedOnFailure ==
    \A r \in Runs :
        Ended(r) =>
            /\ \A id \in hist[r].createFailed : id \notin DOMAIN syncState
            /\ \A id \in hist[r].updateFailed :
                 /\ id \in DOMAIN syncState
                 /\ id \in DOMAIN hist[r].start
                 /\ syncState[id].mochiId = hist[r].start[id].mochiId
                 /\ syncState[id].contentHash = hist[r].start[id].contentHash
                 /\ syncState[id].lastSync = hist[r].start[id].lastSync

\* C5: a call whose first request was answered 429 makes at most 3 requests,
\* the second one at least one time unit after the first and the third at
\* least two units after the second, and the rate-limit failure reaches the
\* engine only after the third.
RetryPolicy ==
    \A r \in Runs :
        /\ hist[r].first = 429 => hist[r].attempts <= 3
        /\ (hist[r].first = 429 /\ hist[r].attempts = 2) => hist[r].gap >= 1
        /\ (hist[r].first = 429 /\ hist[r].attempts = 3) => hist[r].gap >= 2
        /\ run[r].pc = "wait429" => hist[r].attempts = 3

\* C6: when the first request of a card's create was answered 429 and the
\* second with success, the state has an entry for the card with its
\* fingerprint, created went up by exactly one, no failure was counted, and
\* exactly one remote card was made for the card.
TransientThrottlingTransparent ==
    \A r \in Runs :
        ( /\ run[r].pc = "delay"
          /\ hist[r].op = "create"
          /\ hist[r].first = 429
          /\ hist[r].attempts = 2
          /\ hist[r].result = "ok" ) =>
            /\ CurCard(r).id \in DOMAIN syncState
            /\ syncState[CurCard(r).id].contentHash = Fingerprint(CurCard(r).card)
            /\ run[r].created = hist[r].before[1] + 1
            /\ run[r].updated = hist[r].before[2]
            /\ hist[r].failed = hist[r].before[3]
            /\ Cardinality(MadeForCurrent(r)) = 1

\* a create went through on its second request after a 429 on the first
TransientThrottlingWitness ==
    \E r \in Runs :
        /\ run[r].pc = "delay"
        /\ hist[r].op = "create"
        /\ hist[r].first = 429
        /\ hist[r].attempts = 2
        /\ hist[r].result = "ok"
        /\ run[r].created = 1

\* C7: a run that got past the configuration guard reads the state once,
\* saves it at most once and only after the last card of the last document,
\* and has saved it exactly once when it has ended.
PersistOnce ==
    \A r \in Runs :
        /\ hist[r].loads <= 1
        /\ hist[r].saves <= 1
        /\ hist[r].saves = 1 =>
             /\ run[r].fileIdx = NumFiles
             /\ hist[r].processed = run[r].total
        /\ Ended(r) => hist[r].loads = 1 /\ hist[r].saves = 1

\* C8: a run rejects only because the save of the state failed, and a run
\* that has ended has shown either the summary or one fatal message.
OnlyPersistenceEscapes ==
    \A r \in Runs :
        /\ run[r].pc = "rejected" => hist[r].cause = "save"
        /\ Ended(r) => hist[r].summary + hist[r].fatal = 1

\* C9: when the save fails the run rejects with that failure, shows one
\* fatal message and no summary, and issues no remote call afterwards: the
\* remote service holds what it held when the save failed, with every card
\* the run made.
PersistenceFatal ==
    \A r \in Runs :
        hist[r].cause = "save" =>
            /\ run[r].pc = "rejected"
            /\ hist[r].summary = 0
            /\ hist[r].fatal = 1
            /\ remote = hist[r].remoteAtFail
            /\ \A rid \in hist[r].made : HasRemote(remote, rid)

\* the save failed in a run that had made a remote card
PersistenceFatalWitness ==
    \E r \in Runs :
        /\ hist[r].cause = "save"
        /\ hist[r].made # {}
        /\ disk # syncState

\* C10: at most one run is under way at any time.
Serialized == Cardinality({r \in Runs : InProgress(r)}) <= 1

InFlight(r) == run[r].pc \in {"listDecks", "post", "put", "postUpd"}

\* C11: within a run, the call of a card starts at least the spacing delay
\* after the call of the card before it was over, whether that call succeeded
\* or failed and whether the two cards are in the same document or not.
InterCallSpacing ==
    \A r \in Runs :
        (InFlight(r) /\ hist[r].callEnd # 0) =>
            hist[r].callStart - hist[r].callEnd >= SpacingDelay

\* a call is under way in the second document after a call that failed
InterCallSpacingWitness ==
    \E r \in Runs :
        /\ InFlight(r)
        /\ hist[r].callEnd # 0
        /\ hist[r].failed > 0
        /\ run[r].fileIdx = 2

\* C12: a createCard whose deck is not among the decks listDecks returns
\* fails: it sends no create request and makes no remote card.
DeckValidation ==
    \A r \in Runs :
        hist[r].deck = "missing" =>
            /\ run[r].pc \in {"wait429", "delay"}
            /\ hist[r].result = "fail"
            /\ MadeForCurrent(r) = {}

OutOfDate(r) ==
    \E e \in hist[r].seen : \E i \in 1..Len(remote) :
        /\ remote[i].id = e.mochiId
        /\ \/ remote[i].content # MochiContent(CurCard(r).card)
           \/ remote[i].tags # CurCard(r).card.tags

\* C15: for a card that has an entry, a run issues one updateCard call when
\* the tags, question, answer or cloze content of the card are not what was
\* synchronized (the fingerprint tells every such change), and none otherwise.
FingerprintSensitive ==
    \A r \in Runs :
        (AtCard(r) /\ hist[r].seen # {}) =>
            /\ (OutOfDate(r) /\ hist[r].result = "none") => hist[r].op = "update"
            /\ run[r].pc = "put" => OutOfDate(r) \/ ~HasRemote(remote, run[r].target)

\* the fields of a response in the order the claim names them
FieldOrder == <<"id", "_id", "cardId", "card.id">>
Carried(res) == {i \in 1..Len(FieldOrder) : res[FieldOrder[i]] # Absent}

Annotated(block) == \E id \in IdTexts : StartsAt(block.body, 1, IdLine(id))
AnnotationOf(block) == CHOOSE id \in IdTexts : StartsAt(block.body, 1, IdLine(id))
Ids(cards) == [i \in 1..Len(cards) |-> cards[i].id]

RECURSIVE AnnotationsOfCards(_)
AnnotationsOfCards(text) ==
    IF Len(text) = 0 THEN <<>>
    ELSE (IF ParsedBlock(Head(text), 1).card.type = "none" THEN <<>>
          ELSE <<AnnotationOf(Head(text))>>) \o AnnotationsOfCards(Tail(text))

\* C16: parseFile on a text whose blocks all begin with an identifier line
\* returns the identifiers of those lines and no rewritten text; on a text
\* that an earlier parseFile rewrote it returns the identifiers (and cards)
\* of that earlier call and no further rewrite.
IdentifierStable ==
    /\ (probe.fn \in {"parseFile", "reparse"}
            /\ \A i \in 1..Len(probe.arg) : Annotated(probe.arg[i])) =>
          /\ probe.out.fileUpdates = <<>>
          /\ Ids(probe.out.cards) = AnnotationsOfCards(probe.arg)
    /\ probe.fn = "reparse" =>
          /\ probe.out.fileUpdates = <<>>
          /\ probe.out.cards = probe.prev.cards

\* a rewritten text with two cards, the second under a generated identifier,
\* has been parsed again
IdentifierStableWitness ==
    /\ probe.fn = "reparse"
    /\ Len(probe.out.cards) = 2
    /\ probe.out.cards[2].id = IdText(2)
    /\ probe.prev.fileUpdates # <<>>
    /\ probe.out.cards[1].id # probe.out.cards[2].id

\* C17: a block whose body has a separator line with nothing before it or
\* nothing after it gives no card and no rewritten text, with or without an
\* identifier line.
MalformedRejected ==
    (probe.fn = "parseFile"
        /\ probe.arg # <<>>
        /\ \A i \in 1..Len(probe.arg) :
              \/ probe.arg[i].body \in MalformedTexts
              \/ \E id \in IdTexts, t \in MalformedTexts : probe.arg[i].body = IdLine(id) \o t) =>
        /\ probe.out.cards = <<>>
        /\ probe.out.fileUpdates = <<>>

\* C18: every cloze token the detector accepts is stored in the one form
\* {{c<index>::<text>}}.
ClozeCanonical ==
    probe.fn = "cloze" =>
        /\ probe.out.type = "cloze"
        /\ probe.out.content
             = Braces \o <<99>> \o probe.arg.index \o ColonColon \o probe.arg.text \o Closing

\* C19: the cards parseFile returns for a text have pairwise distinct
\* identifiers: an identifier it generates is neither one that a block of
\* the text carries nor one it generated before.
LocalIdsUnique ==
    probe.fn = "parseFile" =>
        \A i, j \in 1..Len(probe.out.cards) :
            i # j => probe.out.cards[i].id # probe.out.cards[j].id

\* C20: an entry the map held when a run began is in the map, and on disk
\* once a run has saved, whatever was removed from the documents since; and
\* a run calls the service only for cards whose blocks are in the documents.
EntriesKept ==
    \A r \in Runs :
        /\ DOMAIN hist[r].start \subseteq DOMAIN syncState
        /\ run[r].pc = "done" => DOMAIN hist[r].start \subseteq DOMAIN disk
        /\ InFlight(r) =>
              \E f \in Files : \E i \in 1..Len(vault[f]) :
                  vault[f][i].id = CurCard(r).id

\* a run after the removal of a block has ended with that block's entry
\* in the map and on disk, and no card processed
EntriesKeptWitness ==
    \E r \in Runs :
        /\ run[r].no >= 2
        /\ run[r].pc = "done"
        /\ run[r].total = 0
        /\ \A f \in Files : vault[f] = <<>>
        /\ \E id \in DOMAIN hist[r].start :
              /\ syncState[id].mochiId # "unknown"
              /\ id \in DOMAIN disk
              /\ HasRemote(remote, syncState[id].mochiId)
        /\ Cardinality(DOMAIN syncState) = 2

\* the number of blocks in the first f documents whose body is a card
RECURSIVE CardsUpTo(_)
CardsUpTo(f) == IF f = 0 THEN 0 ELSE Len(Cards(vault[f])) + CardsUpTo(f - 1)

\* C21: when a run shows its summary, created is the number of cards the
\* run made at the service and the number of entries it added, every call
\* it began was counted as created, as updated or failed, totalFound is the
\* number of cards in the documents, and created + updated is at most
\* totalFound.
SummaryCounts ==
    \A r \in Runs :
        run[r].pc = "done" =>
            /\ run[r].created = Cardinality(hist[r].made)
            /\ run[r].created = Cardinality(DOMAIN syncState \ DOMAIN hist[r].start)
            /\ run[r].updated = hist[r].updates - (hist[r].failed - (hist[r].creates - run[r].created))
            /\ run[r].total = CardsUpTo(NumFiles)
            /\ run[r].created + run[r].updated <= run[r].total

\* a run has ended with one card created and one updated
SummaryCountsWitness ==
    \E r \in Runs :
        /\ run[r].pc = "done"
        /\ run[r].created = 1
        /\ run[r].updated = 1
        /\ run[r].total = 2
        /\ hist[r].failed = 0

\* a card with the payload of its kind
WellFormed(card) ==
    \/ card.type = "qa" /\ card.question # <<>> /\ card.answer # <<>>
    \/ card.type = "cloze" /\ card.content # <<>> /\ ClozeTest(card.content)

\* C22: every card parseFile returns has an identifier that is not empty
\* and the payload of its kind: question and answer for a qa card, content
\* with a cloze token for a cloze card; the engine skips none of them.
WellFormedRecords ==
    /\ probe.fn \in {"parseFile", "reparse"} =>
          \A i \in 1..Len(probe.out.cards) :
              /\ probe.out.cards[i].id # <<>>
              /\ WellFormed(probe.out.cards[i].card)
              /\ ValidCard(probe.out.cards[i].card)
    /\ (probe.fn = "parseBody" /\ probe.out.card.type # "none") =>
          /\ probe.out.id # <<>>
          /\ WellFormed(probe.out.card)
          /\ ValidCard(probe.out.card)

\* the body "{{12}}" has given the cloze card {{c1::2}}
WellFormedRecordsWitness ==
    /\ probe.fn = "parseBody"
    /\ probe.arg = <<123, 123, 49, 50, 125, 125>>
    /\ probe.out.card.type = "cloze"
    /\ probe.out.card.content = <<123, 123, 99, 49, 58, 58, 50, 125, 125>>

\* where a run is: the file, the part of the file's turn, the card, the
\* part of the card's turn and the request of its call
Stage(pc) ==
    CASE pc = "listDecks" -> 0
      [] pc \in {"post", "put"} -> 1
      [] pc = "postUpd" -> 2
      [] pc = "wait429" -> 3
      [] pc = "delay" -> 4
      [] OTHER -> 0

Position(rec) ==
    << IF rec.pc \in {"done", "rejected", "returned"} THEN 2 ELSE IF rec.pc = "save" THEN 1 ELSE 0,
       rec.fileIdx,
       IF rec.pc = "read" THEN 0 ELSE IF rec.pc = "modify" THEN 1 ELSE 2,
       rec.cardIdx,
       Stage(rec.pc),
       rec.ep >>

Before(a, b) ==
    \E i \in 1..Len(a) : a[i] < b[i] /\ \A j \in 1..(i - 1) : a[j] = b[j]

\* C23: a run makes at most NumEndpoints requests for a card; every step of
\* a run takes it forward in the order of files, cards and requests, which
\* has an end; and a run that has ended has shown its summary, or the save
\* of the plugin data has failed.
RunTerminates ==
    /\ [](\A r \in Runs :
            /\ hist[r].attempts <= NumEndpoints
            /\ run[r].fileIdx <= NumFiles
            /\ run[r].cardIdx <= Len(run[r].cards) + 1
            /\ run[r].ep <= NumEndpoints
            /\ run[r].pc = "rejected" => hist[r].cause = "save")
    /\ [][\A r \in Runs :
            (run'[r] # run[r] /\ run'[r].no = run[r].no) =>
                Before(Position(run[r]), Position(run'[r]))]_vars

\* C24: the text parseFile rewrites is the text it was given with one
\* identifier line put before the body of every block that had none, and
\* nothing else changed, in the blocks it patched and in the others.
RewriteExact ==
    (probe.fn = "parseFile" /\ probe.out.fileUpdates # <<>>) =>
        LET old == probe.arg
            new == probe.out.fileUpdates[1]
        IN  /\ Len(new) = Len(old)
            /\ \A i \in 1..Len(old) :
                  IF Annotated(old[i]) \/ old[i].body = <<>>
                  THEN new[i] = old[i]
                  ELSE /\ new[i].open = old[i].open
                       /\ \E id \in IdTexts : new[i].body = IdLine(id) \o old[i].body

\* C25: a body "Q", a line of three or more hyphens with or without
\* whitespace around them, "A" (and possibly a second separator line and
\* "B") gives the question "Q" and for the answer all that follows the
\* first separator line.
SeparatorRecognised ==
    probe.fn = "parseBody" =>
        \A lead \in {<<>>, <<32, 32>>}, trail \in {<<>>, <<32, 32>>}, n \in {3, 4, 5},
           more \in {<<>>, SecondPart} :
            probe.arg = SepText(<<81>>, lead, n, trail, <<65>>, more) =>
                probe.out.card = QA(<<81>>, <<65>> \o more, <<>>)

\* C26: when a run calls createCard for a card whose identifier it has
\* generated, the overwrite of the document is over and the document holds
\* a block with that identifier.
IdentifierDurable ==
    \A r \in Runs :
        (run[r].pc \in {"listDecks", "post"} /\ CurCard(r).id \in hist[r].generated) =>
            /\ run[r].pending = <<>>
            /\ \E i \in 1..Len(vault[run[r].fileIdx]) :
                  /\ vault[run[r].fileIdx][i].id = CurCard(r).id
                  /\ vault[run[r].fileIdx][i].body = CurCard(r).card

\* the create of a card with a generated identifier is under way
IdentifierDurableWitness ==
    \E r \in Runs :
        /\ run[r].pc = "post"
        /\ run[r].ep = 2
        /\ CurCard(r).id \in hist[r].generated
        /\ CurCard(r).id \notin DOMAIN hist[r].start

\* C27: the service holds at most one card made for a card block, whatever
\* the number of runs and whenever they were started.
NoDuplicateRemote ==
    \A i, j \in 1..Len(remote) :
        (i # j /\ remote[i].by # <<0, 0, 0>>) =>
            <<remote[i].by[2], remote[i].by[3]>> # <<remote[j].by[2], remote[j].by[3]>>

\* C28: with an empty API key or an empty default deck a run returns at
\* once: no document is read or overwritten, no call is made, the map is
\* as it was and the plugin data are not saved.
ConfigurationGuard ==
    (settings.apiKey = "" \/ settings.defaultDeckId = "") =>
        /\ \A r \in Runs :
              /\ run[r].pc \in {"idle", "returned"}
              /\ run[r].total = 0
              /\ run[r].created = 0
              /\ run[r].updated = 0
              /\ hist[r] = NoHist
        /\ vault \in InitVaults
        /\ disk = syncState
        /\ \E st \in InitStates : syncState = st.cards /\ remote = st.remote

\* two runs have returned for the empty default deck, with documents that
\* hold cards
ConfigurationGuardWitness ==
    /\ settings.apiKey # ""
    /\ settings.defaultDeckId = ""
    /\ invoked = MaxRuns
    /\ \E r \in Runs : run[r].pc = "returned" /\ run[r].no = MaxRuns
    /\ \E f \in Files : vault[f] # <<>>

\* C29: the remote identifier of an entry never changes; only an update
\* that has succeeded changes an entry, and only its contentHash and
\* lastSync; a failed call changes nothing in the map; and updateCard is
\* addressed to the remote identifier of the card's entry.
RemoteIdWriteOnce ==
    /\ [](\A r \in Runs :
            run[r].pc \in {"put", "postUpd"} =>
                /\ CurCard(r).id \in DOMAIN syncState
                /\ run[r].target = syncState[CurCard(r).id].mochiId)
    /\ [][/\ \A id \in DOMAIN syncState :
               /\ id \in DOMAIN syncState'
               /\ syncState'[id].mochiId = syncState[id].mochiId
               /\ syncState'[id].obj = syncState[id].obj
               /\ syncState'[id] # syncState[id] =>
                     \E r \in Runs :
                         /\ run[r].pc \in {"put", "postUpd"}
                         /\ CurCard(r).id = id
                         /\ hist'[r].result = "ok"
           /\ \A r \in Runs : hist'[r].failed > hist[r].failed => syncState' = syncState]_vars

====
